---------------------------- MODULE Spec2Model ----------------------------
(***************************************************************************)
(* A model of git-qwen (src/src/main.rs): the commit-message assistant     *)
(* that classifies its arguments, retrieves a diff, asks `qwen` for a      *)
(* message, strips a markdown fence, formats the message, lets the user    *)
(* edit it in COMMIT_EDITMSG and hands it to `git commit`.                 *)
(*                                                                         *)
(* A text (a Rust &str / String) is a sequence of characters, each a       *)
(* one-element string.  MB stands for a scalar value encoded in two bytes  *)
(* of UTF-8, BT for the backtick; lengths are byte lengths, as str::len.   *)
(***************************************************************************)
EXTENDS Naturals, Sequences, FiniteSets

VARIABLES
    args,       \* env::args(): the program name, then the user's arguments
    pc,         \* position of main (or of the function under check)
    raw,        \* input text: stdout of qwen, or the argument of the function
    width,      \* max_width handed to wrap_text
    message,    \* output: [fault, value] of the function last applied
    file,       \* COMMIT_EDITMSG: [exists, created, content, written]
    calls,      \* the external processes spawned so far, in order
    locals,     \* main's local variables
    exit_code   \* the process's exit status (NoExit while it runs)

vars == <<args, pc, raw, width, message, file, calls, locals, exit_code>>

----------------------------------------------------------------------------
(* Characters.                                                             *)

NL  == "\n"
CR  == "\r"
TAB == "\t"
SP  == " "
BT  == "BACKTICK"
MB  == "U+00E9"
HASH == "#"

\* char::is_whitespace, on the characters of the model
IsWs(c) == c \in {SP, NL, CR, TAB}

\* char::len_utf8
Width(c) == IF c = MB THEN 2 ELSE 1

\* str::len: the length in bytes
RECURSIVE ByteLen(_)
ByteLen(s) == IF s = <<>> THEN 0 ELSE Width(Head(s)) + ByteLen(Tail(s))

\* str::starts_with / str::ends_with
StartsWith(s, p) == Len(s) >= Len(p) /\ SubSeq(s, 1, Len(p)) = p
EndsWith(s, p) == Len(s) >= Len(p) /\ SubSeq(s, Len(s) - Len(p) + 1, Len(s)) = p

\* str::trim_start, str::trim_end, str::trim
RECURSIVE TrimStart(_)
TrimStart(s) == IF s # <<>> /\ IsWs(Head(s)) THEN TrimStart(Tail(s)) ELSE s

RECURSIVE TrimEnd(_)
TrimEnd(s) ==
    IF s # <<>> /\ IsWs(s[Len(s)]) THEN TrimEnd(SubSeq(s, 1, Len(s) - 1)) ELSE s

Trim(s) == TrimEnd(TrimStart(s))

\* str::find(c): the index (from 1) of the first c, 0 when there is none
RECURSIVE FindFrom(_, _, _)
FindFrom(s, c, i) ==
    IF i > Len(s) THEN 0 ELSE IF s[i] = c THEN i ELSE FindFrom(s, c, i + 1)

Find(s, c) == FindFrom(s, c, 1)

\* str::lines: pieces ended by a line feed lose it and one carriage return
\* before it; a last piece without a line feed is kept as it is, and an
\* empty last piece is no line.
RECURSIVE Lines(_)
Lines(s) ==
    IF s = <<>> THEN <<>>
    ELSE LET p == Find(s, NL)
         IN  IF p = 0 THEN <<s>>
             ELSE LET l == SubSeq(s, 1, p - 1)
                      line == IF l # <<>> /\ l[Len(l)] = CR
                              THEN SubSeq(l, 1, Len(l) - 1) ELSE l
                  IN  <<line>> \o Lines(SubSeq(s, p + 1, Len(s)))

\* [&str]::join(sep)
RECURSIVE Join(_, _)
Join(ss, sep) ==
    IF ss = <<>> THEN <<>>
    ELSE IF Len(ss) = 1 THEN ss[1]
    ELSE ss[1] \o sep \o Join(Tail(ss), sep)

\* str::split_whitespace: the maximal runs of non-whitespace characters
RECURSIVE WordsFrom(_, _, _)
WordsFrom(s, i, cur) ==
    IF i > Len(s) THEN (IF cur = <<>> THEN <<>> ELSE <<cur>>)
    ELSE IF IsWs(s[i])
         THEN (IF cur = <<>> THEN <<>> ELSE <<cur>>) \o WordsFrom(s, i + 1, <<>>)
         ELSE WordsFrom(s, i + 1, Append(cur, s[i]))

SplitWhitespace(s) == WordsFrom(s, 1, <<>>)

\* str::split("\n\n"): the pieces between non-overlapping blank-line marks
RECURSIVE FindParaBreak(_, _)
FindParaBreak(s, i) ==
    IF i + 1 > Len(s) THEN 0
    ELSE IF s[i] = NL /\ s[i + 1] = NL THEN i ELSE FindParaBreak(s, i + 1)

RECURSIVE SplitParagraphs(_)
SplitParagraphs(s) ==
    LET p == FindParaBreak(s, 1)
    IN  IF p = 0 THEN <<s>>
        ELSE <<SubSeq(s, 1, p - 1)>> \o SplitParagraphs(SubSeq(s, p + 2, Len(s)))

\* &s[..n]: the characters that fill the first n bytes; the slice panics
\* when byte n falls inside a character.
RECURSIVE CharsWithin(_, _)
CharsWithin(s, n) ==
    IF s = <<>> \/ Width(Head(s)) > n THEN 0
    ELSE 1 + CharsWithin(Tail(s), n - Width(Head(s)))

IsCharBoundary(s, n) == ByteLen(SubSeq(s, 1, CharsWithin(s, n))) = n

BytePrefix(s, n) == SubSeq(s, 1, CharsWithin(s, n))

----------------------------------------------------------------------------
(* Program constants.                                                      *)

SubjectMax == 50    \* format_commit_message: the subject's byte limit
BodyWidth == 72     \* format_commit_message: the width handed to wrap_text
LangTagMax == 20    \* generate_commit_message: a language tag is shorter

Fence == <<BT, BT, BT>>

\* the argument tokens main looks for, as texts
OptAmend == <<"-", "-", "a", "m", "e", "n", "d">>
OptFixup == <<"-", "-", "f", "i", "x", "u", "p">>
OptSquash == <<"-", "-", "s", "q", "u", "a", "s", "h">>
OptHelp == <<"-", "-", "h", "e", "l", "p">>
OptH == <<"-", "h">>
OptVersion == <<"-", "-", "v", "e", "r", "s", "i", "o", "n">>
OptMessage == <<"-", "-", "m", "e", "s", "s", "a", "g", "e">>
OptFile == <<"-", "-", "f", "i", "l", "e">>
OptReuseMessage == <<"-", "-", "r", "e", "u", "s", "e", "-", "m", "e", "s", "s", "a", "g", "e">>
OptReeditMessage == <<"-", "-", "r", "e", "e", "d", "i", "t", "-", "m", "e", "s", "s", "a", "g", "e">>
OptM == <<"-", "m">>
OptF == <<"-", "F">>
OptBigC == <<"-", "C">>
OptC == <<"-", "c">>
OptA == <<"-", "a">>
OptAll == <<"-", "-", "a", "l", "l">>
OptS == <<"-", "s">>
OptSignoff == <<"-", "-", "s", "i", "g", "n", "o", "f", "f">>
ProgramName == <<"g", "i", "t", "-", "q", "w", "e", "n">>
Word == <<"x">>

\* the texts create_commit_msg_file and get_signoff_line write
SignedOffBy ==
    <<"S", "i", "g", "n", "e", "d", "-", "o", "f", "f", "-", "b",
      "y", ":", SP>>
DetachedHead ==
    <<"d", "e", "t", "a", "c", "h", "e", "d", SP, "H", "E", "A",
      "D">>
TemplatePlease ==
    <<NL, HASH, SP, "P", "l", "e", "a", "s", "e", SP, "e", "n",
      "t", "e", "r", SP, "t", "h", "e", SP, "c", "o", "m", "m",
      "i", "t", SP, "m", "e", "s", "s", "a", "g", "e", SP, "f",
      "o", "r", SP, "y", "o", "u", "r", SP, "c", "h", "a", "n",
      "g", "e", "s", ".", SP, "L", "i", "n", "e", "s", SP, "s",
      "t", "a", "r", "t", "i", "n", "g", NL>>
TemplateIgnored ==
    <<HASH, SP, "w", "i", "t", "h", SP, "'", HASH, "'", SP, "w",
      "i", "l", "l", SP, "b", "e", SP, "i", "g", "n", "o", "r",
      "e", "d", ",", SP, "a", "n", "d", SP, "a", "n", SP, "e",
      "m", "p", "t", "y", SP, "m", "e", "s", "s", "a", "g", "e",
      SP, "a", "b", "o", "r", "t", "s", SP, "t", "h", "e", SP,
      "c", "o", "m", "m", "i", "t", ".", NL>>
TemplateOnBranch ==
    <<HASH, SP, "O", "n", SP, "b", "r", "a", "n", "c", "h", SP>>
TemplateChanges ==
    <<HASH, SP, "C", "h", "a", "n", "g", "e", "s", SP, "t", "o",
      SP, "b", "e", SP, "c", "o", "m", "m", "i", "t", "t", "e",
      "d", ":", NL>>

\* --flag=VALUE
Inline(flag, value) == flag \o <<"=">> \o value

----------------------------------------------------------------------------
(* wrap_text (lines 309-354).                                              *)

\* lines 319-324: the paragraph's lines, trimmed, joined by single spaces
RECURSIVE JoinTrimmed(_, _)
JoinTrimmed(lines, wrapped_paragraph) ==
    IF lines = <<>> THEN wrapped_paragraph
    ELSE JoinTrimmed(Tail(lines),
             (IF wrapped_paragraph # <<>> THEN Append(wrapped_paragraph, SP)
              ELSE wrapped_paragraph) \o Trim(Head(lines)))

\* a plausible slip: the separating space is not counted
FitsNoSpace(current_line, word, max_width) ==
    ByteLen(current_line) + ByteLen(word) <= max_width

\* line 333: the word still fits on the current line
Fits(current_line, word, max_width) ==
    ByteLen(current_line) + 1 + ByteLen(word) <= max_width

\* lines 337-340 and 346-349: flush the current line into the result
PushLine(result, current_line) ==
    (IF result # <<>> /\ ~EndsWith(result, <<NL, NL>>)
     THEN Append(result, NL) ELSE result) \o current_line

\* lines 330-343: the greedy loop over the words
RECURSIVE WrapWords(_, _, _, _)
WrapWords(words, current_line, result, max_width) ==
    IF words = <<>> THEN [result |-> result, current_line |-> current_line]
    ELSE LET word == Head(words)
         IN  IF current_line = <<>>
             THEN WrapWords(Tail(words), word, result, max_width)
             ELSE IF Fits(current_line, word, max_width)
             THEN WrapWords(Tail(words), current_line \o <<SP>> \o word,
                            result, max_width)
             ELSE WrapWords(Tail(words), word,
                            PushLine(result, current_line), max_width)

\* lines 313-350: one paragraph
WrapParagraph(result, paragraph, max_width) ==
    LET r0 == IF result # <<>> THEN result \o <<NL, NL>> ELSE result
        wrapped_paragraph == JoinTrimmed(Lines(paragraph), <<>>)
        w == WrapWords(SplitWhitespace(wrapped_paragraph), <<>>, r0, max_width)
    IN  IF w.current_line # <<>> THEN PushLine(w.result, w.current_line)
        ELSE w.result

RECURSIVE WrapParagraphs(_, _, _)
WrapParagraphs(paragraphs, result, max_width) ==
    IF paragraphs = <<>> THEN result
    ELSE WrapParagraphs(Tail(paragraphs),
                        WrapParagraph(result, Head(paragraphs), max_width),
                        max_width)

wrap_text(text, max_width) ==
    WrapParagraphs(SplitParagraphs(text), <<>>, max_width)

----------------------------------------------------------------------------
(* format_commit_message (lines 275-307).  A result is [fault, value]:     *)
(* fault is TRUE when the call panics and returns nothing.                 *)

Returned(text) == [fault |-> FALSE, value |-> text]
Panicked == [fault |-> TRUE, value |-> <<>>]

\* a plausible slip: the truncated subject keeps its trailing whitespace
SubjectUntrimmed(line) ==
    IF ByteLen(line) > SubjectMax
    THEN (IF IsCharBoundary(line, SubjectMax)
          THEN Returned(BytePrefix(line, SubjectMax)) ELSE Panicked)
    ELSE Returned(line)

\* lines 283-289: the subject, truncated to 50 bytes and trimmed at its end
Subject(line) ==
    IF ByteLen(line) > SubjectMax
    THEN (IF IsCharBoundary(line, SubjectMax)
          THEN Returned(TrimEnd(BytePrefix(line, SubjectMax))) ELSE Panicked)
    ELSE Returned(TrimEnd(line))

\* line 294: the first line after the subject that is not blank (0: none)
RECURSIVE BodyStart(_, _)
BodyStart(lines, i) ==
    IF i > Len(lines) THEN 0
    ELSE IF Trim(lines[i]) # <<>> THEN i ELSE BodyStart(lines, i + 1)

format_commit_message(msg) ==
    LET lines == Lines(msg)
    IN  IF lines = <<>> THEN Returned(<<>>)
        ELSE LET subject == Subject(lines[1])
                 start == BodyStart(lines, 2)
             IN  IF subject.fault THEN Panicked
                 ELSE IF Len(lines) > 1 /\ start # 0
                 THEN Returned(subject.value \o <<NL, NL>> \o
                          wrap_text(Join(SubSeq(lines, start, Len(lines)), <<NL>>),
                                    BodyWidth))
                 ELSE subject

----------------------------------------------------------------------------
(* The fence stripper of generate_commit_message (lines 252-271).          *)

\* lines 257-269: drop the line feed after the marker, or a language tag
DropTagLine(m) ==
    IF m # <<>> /\ Head(m) = NL THEN Tail(m)
    ELSE LET pos == Find(m, NL)
         IN  IF pos # 0
             THEN LET first_line == SubSeq(m, 1, pos - 1)
                  IN  IF Find(first_line, SP) = 0 /\ ByteLen(first_line) < LangTagMax
                      THEN SubSeq(m, pos + 1, Len(m))
                      ELSE m
             ELSE m

FenceStrip(text) ==
    LET m1 == Trim(text)
        m2 == IF StartsWith(m1, Fence) THEN SubSeq(m1, 4, Len(m1)) ELSE m1
        m3 == IF EndsWith(m2, Fence) THEN SubSeq(m2, 1, Len(m2) - 3) ELSE m2
    IN  Trim(DropTagLine(m3))

----------------------------------------------------------------------------
(* Bounds and input sets.                                                  *)

MaxWrapLen == 6     \* characters of a text handed to wrap_text
MaxWidth == 3       \* widths tried for wrap_text
MaxFormatLen == 4   \* characters after the padding, format_commit_message
MaxStripLen == 5    \* characters of a text handed to the fence stripper

\* every text of at most n characters of the alphabet
Texts(alphabet, n) == UNION {[1..k -> alphabet] : k \in 0..n}

\* n copies of the character c
Repeat(c, n) == [i \in 1..n |-> c]

WrapInputs == Texts({"a", SP, NL}, MaxWrapLen)

\* a subject that ends around byte 50, then any short text
FormatInputs ==
    {Repeat("a", p) \o t :
        p \in {0} \cup ((SubjectMax - 3)..SubjectMax),
        t \in Texts({"a", SP, NL, CR, MB}, MaxFormatLen)}

StripInputs == Texts({"a", SP, NL, BT}, MaxStripLen)

----------------------------------------------------------------------------
(* The state before main has done anything.                                *)

\* created and written are history: whether File::create ever succeeded and
\* what create_commit_msg_file had put in the file when it returned
NoFile == [exists |-> FALSE, created |-> FALSE, content |-> <<>>, written |-> <<>>]
NoLocals ==
    [is_amend |-> FALSE, skip_generation |-> FALSE, include_all |-> FALSE,
     include_signoff |-> FALSE, edited_msg |-> <<>>, trimmed_msg |-> <<>>]
Running == <<>>

Idle ==
    /\ message = Returned(<<>>)
    /\ file = NoFile
    /\ calls = <<>>
    /\ locals = NoLocals
    /\ exit_code = Running

----------------------------------------------------------------------------
(* The functions on their own: Init draws the argument, the one action     *)
(* applies the function.                                                   *)

InitWrap ==
    /\ Idle
    /\ args = <<>>
    /\ raw \in WrapInputs
    /\ width \in 1..MaxWidth
    /\ pc = "wrap_text"

WrapText ==
    /\ pc = "wrap_text"
    /\ message' = Returned(wrap_text(raw, width))
    /\ pc' = "returned"
    /\ UNCHANGED <<args, raw, width, file, calls, locals, exit_code>>

SpecWrap == InitWrap /\ [][WrapText]_vars

InitFormat ==
    /\ Idle
    /\ args = <<>>
    /\ raw \in FormatInputs
    /\ width = BodyWidth
    /\ pc = "format_commit_message"

FormatCommitMessage ==
    /\ pc = "format_commit_message"
    /\ message' = format_commit_message(raw)
    /\ pc' = "returned"
    /\ UNCHANGED <<args, raw, width, file, calls, locals, exit_code>>

SpecFormat == InitFormat /\ [][FormatCommitMessage]_vars

InitStrip ==
    /\ Idle
    /\ args = <<>>
    /\ raw \in StripInputs
    /\ width = BodyWidth
    /\ pc = "fence_strip"

StripFence ==
    /\ pc = "fence_strip"
    /\ message' = Returned(FenceStrip(raw))
    /\ pc' = "returned"
    /\ UNCHANGED <<args, raw, width, file, calls, locals, exit_code>>

SpecStrip == InitStrip /\ [][StripFence]_vars

----------------------------------------------------------------------------
(* main (lines 17-136) and the functions it calls.                         *)

MaxArgs == 2        \* arguments after the program name
MaxRawLen == 1      \* characters of qwen's stdout in a run of main
MaxEditLines == 2   \* lines the editor leaves in COMMIT_EDITMSG

\* every list of at most n of the tokens, after the program name
ArgLists(tokens, n) ==
    {<<ProgramName>> \o l : l \in UNION {[1..k -> tokens] : k \in 0..n}}

\* the arguments tried in a run of main
MainTokens == {OptA, OptS, OptAmend, OptM}

\* the arguments tried for the classification alone
ClassifierTokens ==
    {OptAmend, OptFixup, OptSquash, OptHelp, OptH, OptVersion, OptMessage,
     OptFile, OptReuseMessage, OptReeditMessage, OptM, OptF, OptBigC, OptC,
     OptA, OptAll, OptS, OptSignoff, Word,
     Inline(OptFixup, Word), Inline(OptSquash, Word), Inline(OptMessage, Word),
     Inline(OptFile, Word), Inline(OptReuseMessage, Word),
     Inline(OptReeditMessage, Word)}

\* what a spawned process can come to: it did not start, it exited with a
\* non-zero status, it succeeded with bytes that are no UTF-8, it
\* succeeded with a text on its stdout
Outputs(texts) ==
    {[kind |-> k, stdout |-> <<>>] : k \in {"spawn_error", "nonzero", "invalid_utf8"}}
        \cup {[kind |-> "ok", stdout |-> t] : t \in texts}

Success(r) == r.kind \in {"invalid_utf8", "ok"}

Ok(v) == [ok |-> TRUE, value |-> v]
Err == [ok |-> FALSE, value |-> <<>>]

DiffTexts == {<<>>, <<NL>>, <<"d">>}
RawTexts == Texts({"a", SP, NL}, MaxRawLen)
EditLines == {<<"a">>, <<HASH, "a">>, <<SP, HASH>>}
EditedTexts ==
    {Join(ls, <<NL>>) : ls \in UNION {[1..k -> EditLines] : k \in 0..MaxEditLines}}
\* what the editor does to the file before it exits
Edits ==
    {[kind |-> k, text |-> <<>>] : k \in {"unchanged", "removed"}}
        \cup {[kind |-> "rewritten", text |-> t] : t \in EditedTexts}
StatusTexts == {<<"M", SP, "f", NL>>}
BranchTexts == {<<"m", NL>>}
UserName == <<"N", NL>>
UserEmail == <<"E", NL>>

\* lines 24-44: the closure of skip_generation, for argument i (from 0)
SkipsAt(argv, i) ==
    LET arg == argv[i + 1]
    IN  \/ arg \in {OptFixup, OptSquash, OptHelp, OptH, OptVersion}
        \/ \E flag \in {OptFixup, OptSquash, OptMessage, OptFile,
                        OptReuseMessage, OptReeditMessage} :
               StartsWith(arg, Append(flag, "="))
        \/ arg \in {OptM, OptF, OptBigC, OptC} /\ i + 1 < Len(argv)

skip_generation(argv) == \E i \in 0..(Len(argv) - 1) : SkipsAt(argv, i)

Any(argv, tokens) == \E i \in 1..Len(argv) : argv[i] \in tokens

\* lines 138-223
get_git_diff(include_all, is_amend, head_diff, staged, unstaged) ==
    IF is_amend
    THEN IF head_diff.kind # "ok" \/ staged.kind \in {"spawn_error", "invalid_utf8"}
            \/ (include_all /\ unstaged.kind \in {"spawn_error", "invalid_utf8"})
         THEN Err
         ELSE Ok(head_diff.stdout \o staged.stdout
                 \o (IF include_all THEN unstaged.stdout ELSE <<>>))
    ELSE IF include_all
    THEN IF staged.kind # "ok" \/ unstaged.kind # "ok" THEN Err
         ELSE Ok(staged.stdout \o unstaged.stdout)
    ELSE IF staged.kind # "ok" THEN Err ELSE Ok(staged.stdout)

\* lines 356-382
get_signoff_line(name, email) ==
    IF name.kind # "ok" \/ email.kind # "ok" THEN Err
    ELSE Ok(SignedOffBy \o Trim(name.stdout) \o <<SP, "<">>
            \o Trim(email.stdout) \o <<">", NL>>)

\* lines 430-433
BranchName(branch_output) ==
    IF branch_output.kind = "ok" THEN Trim(branch_output.stdout)
    ELSE IF branch_output.kind = "nonzero" THEN <<>>
    ELSE DetachedHead

\* lines 446-449
RECURSIVE StatusComments(_)
StatusComments(lines) ==
    IF lines = <<>> THEN <<>>
    ELSE <<HASH, SP>> \o Head(lines) \o <<NL>> \o StatusComments(Tail(lines))

\* lines 435-449: the template comments
Template(status, branch_name) ==
    TemplatePlease \o TemplateIgnored \o <<HASH, NL>>
        \o TemplateOnBranch \o branch_name \o <<NL>>
        \o TemplateChanges \o StatusComments(Lines(status))

\* a plausible slip: comment lines are not dropped
TrimmedMsgKeepsComments(edited_msg) == Trim(Join(Lines(edited_msg), <<NL>>))

\* lines 122-127: the lines that do not start with '#', joined and trimmed
TrimmedMsg(edited_msg) ==
    Trim(Join(SelectSeq(Lines(edited_msg),
                        LAMBDA line : ~StartsWith(line, <<HASH>>)), <<NL>>))

\* a plausible slip: the program name is passed on
GitCommitArgvWithName(argv) == argv

\* line 48 and lines 489-493: git commit, then the user's arguments
GitCommitArgv(argv) == Tail(argv)

\* lines 502-507: git commit -m <message>, then the user's arguments
GitCommitWithMessageArgv(msg, argv) == <<OptM, msg>> \o Tail(argv)

Call(step, ok, argv) == [step |-> step, ok |-> ok, argv |-> argv]

\* std::process::exit(code)
Exit(code) ==
    /\ pc' = "exit"
    /\ exit_code' = <<code>>

\* lines 483-487
Removed(f) == [f EXCEPT !.exists = FALSE, !.content = <<>>]

Init ==
    /\ Idle
    /\ args \in ArgLists(MainTokens, MaxArgs)
    /\ raw = <<>>
    /\ width = BodyWidth
    /\ pc = "main"

InitArgs ==
    /\ Idle
    /\ args \in ArgLists(ClassifierTokens, MaxArgs)
    /\ raw = <<>>
    /\ width = BodyWidth
    /\ pc = "main"

\* lines 18-56: the flags main derives from its arguments
Classify ==
    /\ pc = "main"
    /\ locals' = [locals EXCEPT
                    !.is_amend = Any(args, {OptAmend}),
                    !.skip_generation = skip_generation(args),
                    !.include_all = Any(args, {OptA, OptAll}),
                    !.include_signoff = Any(args, {OptS, OptSignoff})]
    /\ pc' = IF skip_generation(args) THEN "execute_git_commit" ELSE "get_git_diff"
    /\ UNCHANGED <<args, raw, width, message, file, calls, exit_code>>

\* lines 46-50 and 489-500
ExecuteGitCommit ==
    /\ pc = "execute_git_commit"
    /\ \E code \in {0, 1} :
        /\ calls' = Append(calls, Call("git commit", code = 0, GitCommitArgv(args)))
        /\ Exit(code)
    /\ UNCHANGED <<args, raw, width, message, file, locals>>

\* lines 58-79
GetGitDiff ==
    /\ pc = "get_git_diff"
    /\ \E head_diff \in Outputs(DiffTexts), staged \in Outputs(DiffTexts),
          unstaged \in Outputs(DiffTexts) :
        LET diff_output == get_git_diff(locals.include_all, locals.is_amend,
                                        head_diff, staged, unstaged)
        IN  /\ calls' = Append(calls, Call("get_git_diff", diff_output.ok, <<>>))
            /\ IF ~diff_output.ok \/ Trim(diff_output.value) = <<>>
               THEN Exit(1)
               ELSE pc' = "generate_commit_message" /\ UNCHANGED exit_code
    /\ UNCHANGED <<args, raw, width, message, file, locals>>

\* lines 81-89 and 225-273; a panic of format_commit_message ends the
\* process with status 101
GenerateCommitMessage ==
    /\ pc = "generate_commit_message"
    /\ \E qwen \in Outputs(RawTexts) \cup {[kind |-> "stdin_error", stdout |-> <<>>]} :
        /\ calls' = Append(calls, Call("generate_commit_message", qwen.kind = "ok", <<>>))
        /\ IF qwen.kind # "ok"
           THEN Exit(1) /\ UNCHANGED <<raw, message>>
           ELSE /\ raw' = qwen.stdout
                /\ message' = format_commit_message(FenceStrip(qwen.stdout))
                /\ IF message'.fault THEN Exit(101)
                   ELSE pc' = "create_commit_msg_file" /\ UNCHANGED exit_code
    /\ UNCHANGED <<args, width, file, locals>>

\* lines 91-98 and 384-453: the steps in order, failing at `fails` (at
\* none of them when fails = "none"); an Err leaves main at line 96
CreateCommitMsgFile ==
    /\ pc = "create_commit_msg_file"
    /\ \E fails \in {"none", "git_dir", "create", "write_message", "write_signoff",
                     "write_template"},
          name \in Outputs({UserName}), email \in Outputs({UserEmail}),
          status_output \in Outputs(StatusTexts),
          branch_output \in Outputs(BranchTexts) :
        \* git status --porcelain prints UTF-8 (line 422 would replace the rest)
        /\ status_output.kind # "invalid_utf8"
        /\ LET signoff == get_signoff_line(name, email)
               with_message == message.value
               with_signoff == IF locals.include_signoff
                               THEN with_message \o <<NL, NL>> \o signoff.value
                               ELSE with_message
               with_template ==
                   IF Success(status_output)
                   THEN with_signoff \o Template(status_output.stdout,
                                                 BranchName(branch_output))
                   ELSE with_signoff
               Left(content) == [exists |-> TRUE, created |-> TRUE,
                                 content |-> content, written |-> content]
               failed ==
                   IF fails \in {"git_dir", "create"} THEN [at |-> fails, file |-> file]
                   ELSE IF fails = "write_message"
                   THEN [at |-> fails, file |-> Left(<<>>)]
                   ELSE IF locals.include_signoff /\ ~signoff.ok
                   THEN [at |-> "get_signoff_line", file |-> Left(with_message)]
                   ELSE IF locals.include_signoff /\ fails = "write_signoff"
                   THEN [at |-> fails, file |-> Left(with_message)]
                   ELSE IF status_output.kind = "spawn_error"
                   THEN [at |-> "git status", file |-> Left(with_signoff)]
                   ELSE IF Success(status_output) /\ fails = "write_template"
                   THEN [at |-> fails, file |-> Left(with_signoff)]
                   ELSE [at |-> "none", file |-> Left(with_template)]
           IN  /\ file' = failed.file
               /\ calls' = Append(calls, Call("create_commit_msg_file",
                                              failed.at = "none", <<>>))
               /\ IF failed.at # "none" THEN Exit(1)
                  ELSE pc' = "open_editor" /\ UNCHANGED exit_code
    /\ UNCHANGED <<args, raw, width, message, locals>>

\* lines 100-106 and 470-481: the editor may rewrite or remove the file
OpenEditor ==
    /\ pc = "open_editor"
    /\ \E status \in {"spawn_error", "nonzero", "ok"},
          edit \in Edits :
        /\ status = "spawn_error" => edit.kind = "unchanged"
        /\ calls' = Append(calls, Call("open_editor", status = "ok", <<>>))
        /\ LET edited == IF edit.kind = "unchanged" THEN file
                         ELSE IF edit.kind = "removed" THEN Removed(file)
                         ELSE [file EXCEPT !.content = edit.text]
           IN  IF status # "ok"
               THEN file' = Removed(edited) /\ Exit(1)
               ELSE file' = edited /\ pc' = "read_to_string" /\ UNCHANGED exit_code
    /\ UNCHANGED <<args, raw, width, message, locals>>

\* lines 108-132: read the file back, remove it, refuse an empty message
ReadEditedMessage ==
    /\ pc = "read_to_string"
    /\ \E readable \in BOOLEAN :
        LET read_ok == file.exists /\ readable
        IN  /\ calls' = Append(calls, Call("read_to_string", read_ok, <<>>))
            /\ file' = Removed(file)
            /\ IF ~read_ok THEN Exit(1) /\ UNCHANGED locals
               ELSE /\ locals' = [locals EXCEPT !.edited_msg = file.content,
                                                !.trimmed_msg = TrimmedMsg(file.content)]
                    /\ IF TrimmedMsg(file.content) = <<>> THEN Exit(1)
                       ELSE pc' = "execute_git_commit_with_message"
                            /\ UNCHANGED exit_code
    /\ UNCHANGED <<args, raw, width, message>>

\* lines 134-135 and 502-515
ExecuteGitCommitWithMessage ==
    /\ pc = "execute_git_commit_with_message"
    /\ \E code \in {0, 1} :
        /\ calls' = Append(calls, Call("git commit", code = 0,
                               GitCommitWithMessageArgv(locals.trimmed_msg, args)))
        /\ Exit(code)
    /\ UNCHANGED <<args, raw, width, message, file, locals>>

Next ==
    \/ Classify
    \/ ExecuteGitCommit
    \/ GetGitDiff
    \/ GenerateCommitMessage
    \/ CreateCommitMsgFile
    \/ OpenEditor
    \/ ReadEditedMessage
    \/ ExecuteGitCommitWithMessage

Spec == Init /\ [][Next]_vars

SpecArgs == InitArgs /\ [][Classify]_vars

----------------------------------------------------------------------------
(* Claims about the functions.                                             *)

\* the pieces of a text between its line feeds (always at least one)
RECURSIVE SplitNL(_)
SplitNL(s) ==
    LET p == Find(s, NL)
    IN  IF p = 0 THEN <<s>>
        ELSE <<SubSeq(s, 1, p - 1)>> \o SplitNL(SubSeq(s, p + 1, Len(s)))

\* the text up to the first line feed
FirstLine(s) == SplitNL(s)[1]

\* C1: whenever format_commit_message returns for an input with at least
\* one line, the first line of its result is at most 50 bytes long and does
\* not end in whitespace.
C1_SubjectBounded ==
    (pc = "returned" /\ Lines(raw) # <<>> /\ ~message.fault) =>
        LET first == FirstLine(message.value)
        IN  /\ ByteLen(first) <= SubjectMax
            /\ (first # <<>> => ~IsWs(first[Len(first)]))

\* C1's case: a first line longer than 50 bytes whose 50th byte is a space
\* has been truncated and trimmed.
C1_Witness ==
    /\ pc = "returned"
    /\ ~message.fault
    /\ Lines(raw) # <<>>
    /\ ByteLen(Lines(raw)[1]) > SubjectMax
    /\ SubSeq(Lines(raw)[1], SubjectMax, SubjectMax) = <<SP>>
    /\ ByteLen(FirstLine(message.value)) = SubjectMax - 1

\* C9: format_commit_message returns a result for every input text and
\* never faults.
C9_NeverFaults == pc = "returned" => ~message.fault

\* C2: the fence stripper applied to its own output returns that output.
C2_Idempotent == pc = "returned" => FenceStrip(message.value) = message.value

\* C3: for a text whose trimmed form neither starts nor ends with a fence
\* marker, the fence stripper returns the trimmed text.
C3_NoFenceIsTrim ==
    (pc = "returned" /\ ~StartsWith(Trim(raw), Fence) /\ ~EndsWith(Trim(raw), Fence))
        => message.value = Trim(raw)

\* the whitespace-separated words of every line, in order
RECURSIVE AllWords(_)
AllWords(ls) ==
    IF ls = <<>> THEN <<>> ELSE SplitWhitespace(Head(ls)) \o AllWords(Tail(ls))

\* C4: every line of wrap_text(text, W) is at most W bytes long or is one
\* word longer than W standing alone; the words of the text come out whole
\* and in order.
C4_LinesWithinWidth ==
    pc = "returned" =>
        LET out == SplitNL(message.value)
        IN  /\ \A i \in 1..Len(out) :
                \/ ByteLen(out[i]) <= width
                \/ /\ SplitWhitespace(out[i]) = <<out[i]>>
                   /\ \E j \in 1..Len(SplitWhitespace(raw)) :
                          SplitWhitespace(raw)[j] = out[i]
            /\ AllWords(out) = SplitWhitespace(raw)

\* C4's case: a word longer than the width stands alone on a line between
\* two other lines.
C4_Witness ==
    /\ pc = "returned"
    /\ LET out == SplitNL(message.value)
       IN  \E i \in 2..(Len(out) - 1) :
               /\ ByteLen(out[i]) > width
               /\ out[i - 1] # <<>>
               /\ out[i + 1] # <<>>

----------------------------------------------------------------------------
(* Claims about main.                                                      *)

\* the git commit invocations so far
Commits == SelectSeq(calls, LAMBDA c : c.step = "git commit")

Did(step) == \E i \in 1..Len(calls) : calls[i].step = step /\ calls[i].ok

SomeStepFailed ==
    \E i \in 1..Len(calls) : calls[i].step # "git commit" /\ ~calls[i].ok

\* some line that does not start with '#' holds a character that is no
\* whitespace
HasContent(text) ==
    \E i \in 1..Len(SplitNL(text)) :
        LET l == SplitNL(text)[i]
        IN  /\ ~StartsWith(l, <<HASH>>)
            /\ \E j \in 1..Len(l) : ~IsWs(l[j])

InGenerateFlow == pc # "main" /\ ~locals.skip_generation
InBypassFlow == pc # "main" /\ locals.skip_generation

\* the bypass rule as the claim C5 states it
ClaimedBypass(argv) ==
    \E i \in 1..Len(argv) :
        \/ argv[i] \in {OptHelp, OptH, OptVersion}
        \/ argv[i] \in {OptM, OptF, OptBigC, OptC} /\ i < Len(argv)
        \/ \E flag \in {OptMessage, OptFile, OptReuseMessage, OptReeditMessage,
                        OptFixup, OptSquash} :
               argv[i] = flag \/ StartsWith(argv[i], Append(flag, "="))

\* C5: main decides to bypass generation exactly for the argument lists
\* the claim names: a help or version flag, a short value flag followed by
\* another token, or a long message, file, reuse, reedit, fixup or squash
\* flag, bare or with an inline value.
C5_ClassifierRule ==
    pc # "main" => (locals.skip_generation <=> ClaimedBypass(args))

\* C6: in the generate flow git commit is invoked at most once, as the last
\* thing, only after every step succeeded and the edited message has
\* content; after a failed step or an edit without content the run has
\* ended with a non-zero status without invoking git commit.
C6_CommitOnlyAfterSuccess ==
    InGenerateFlow =>
        /\ Len(Commits) <= 1
        /\ Commits # <<>> =>
              /\ calls[Len(calls)].step = "git commit"
              /\ Did("get_git_diff")
              /\ Did("generate_commit_message")
              /\ Did("create_commit_msg_file")
              /\ file.created
              /\ Did("open_editor")
              /\ Did("read_to_string")
              /\ HasContent(locals.edited_msg)
              /\ Commits[1].argv[2] # <<>>
        /\ (SomeStepFailed \/ (Did("read_to_string") /\ ~HasContent(locals.edited_msg)))
              => /\ Commits = <<>>
                 /\ pc = "exit"
                 /\ exit_code # <<0>>

\* C6's case: the run committed a message the user wrote under a comment
\* line.
C6_Witness ==
    /\ InGenerateFlow
    /\ pc = "exit"
    /\ Len(Commits) = 1
    /\ exit_code = <<0>>
    /\ locals.edited_msg = <<HASH, "a", NL, "a">>

\* C7: when qwen's output is empty or only whitespace the formatted
\* message is empty, and a run whose editor left the file as it was written
\* ends with a non-zero status without invoking git commit.
C7_EmptyGenerationAborts ==
    (InGenerateFlow /\ Did("generate_commit_message") /\ Trim(raw) = <<>>) =>
        /\ message = Returned(<<>>)
        /\ (Did("read_to_string") /\ locals.edited_msg = file.written)
              => Commits = <<>>

\* C8: in the bypass flow nothing is retrieved, generated or written, and
\* git commit is invoked once, with the arguments after the program name
\* as they were given.
C8_BypassPassesArgs ==
    InBypassFlow =>
        /\ file = NoFile
        /\ raw = <<>>
        /\ message = Returned(<<>>)
        /\ \A i \in 1..Len(calls) : calls[i].step = "git commit"
        /\ IF pc = "exit"
           THEN /\ Len(calls) = 1
                /\ calls[1].argv = SubSeq(args, 2, Len(args))
           ELSE calls = <<>>

\* C8's case: -m followed by another token was handed on as given.
C8_Witness ==
    /\ InBypassFlow
    /\ pc = "exit"
    /\ Len(calls) = 1
    /\ calls[1].argv = <<OptM, OptS>>

\* C10: once COMMIT_EDITMSG has been created, it is gone when the process
\* exits and when git commit is invoked.
C10_FileRemoved ==
    (InGenerateFlow /\ file.created /\ (pc = "exit" \/ Commits # <<>>))
        => ~file.exists

=============================================================================
